---------------------------- MODULE Spec2Model ----------------------------
(***************************************************************************)
(* RepCue video pipeline (docs/implementation-plans/video): the batch      *)
(* renderer blender_batch_render.py with the retime block it applies to an *)
(* imported action, the two-stage catalog pipeline (build_catalog_blend.py *)
(* followed by render_catalog_scenes.py) and the render operator of        *)
(* repcue_render_addon.py.                                                 *)
(*                                                                         *)
(* Blender (bpy) is outside the repository: a call into it is modelled by  *)
(* its effect on the state the scripts read back (the resolved file, the   *)
(* rig and its action, the frame range, the output settings), and an       *)
(* import or a render call may raise.                                      *)
(*                                                                         *)
(* Frame numbers and durations are Python floats in the scripts.  They are *)
(* modelled as exact rationals [n |-> numerator, d |-> denominator > 0] in *)
(* lowest terms; floating-point rounding is not modelled.                  *)
(***************************************************************************)
EXTENDS Integers, Sequences, FiniteSets, TLC

VARIABLES
    script,         \* which script is running: "batch" | "build" | "render" |
                    \* "addon", or "retime" for the retime block on its own
    pc,             \* position of the running script
    error,          \* the exception that ended the run, "none" while there is none
    ids,            \* args.ids: the catalog, in order
    fps,            \* args.fps
    seconds,        \* args.seconds (a rational)
    static_seconds, \* args.static_seconds (a rational)
    static_ids,     \* args.static_ids (the add-on: the id if props.is_static)
    idx,            \* position in args.ids (or in scenes) of the current id
    present,        \* the extensions e for which <src>/<ex_id><e> exists
    absent,         \* the ids resolved so far for which no such file exists
    fpath,          \* the resolved asset <<ex_id, ext>>, or None
    scenes,         \* the scenes of the catalog .blend: [name, imported]
    aspect,         \* position in the aspect loop (0 outside it)
    rig,            \* import_asset found an armature
    act,            \* the action being rendered, or NoAction
    frame_start,    \* scene.frame_start
    frame_end,      \* scene.frame_end
    fstart,         \* globals of the retime block: act.frame_range ...
    fend,
    orig,           \* ... the source length used
    scale,          \* ... and the scale used
    video,          \* the active scene has the FFMPEG/MPEG4/H264 output settings
    render_fps,     \* scene.render.fps of the active scene
    log,            \* calls made so far: <<"warn"|"import"|"retime"|"idle", ex_id>>
    jobs,           \* render calls made so far
    pristine,       \* the action as imported, before any retime
    once,           \* the action after its first retime
    applied         \* number of times the retime block ran on act

vars == <<script, pc, error, ids, fps, seconds, static_seconds, static_ids,
          idx, present, absent, fpath, scenes, aspect, rig, act, frame_start,
          frame_end, fstart, fend, orig, scale, video, render_fps, log, jobs,
          pristine, once, applied>>

\* The configuration, which no step changes
cfg == <<script, ids, fps, seconds, static_seconds, static_ids>>
\* The globals of the retime block and the action's history
retime_vars == <<fstart, fend, orig, scale, pristine, once, applied>>

\* Python's None, for a path and for an action
None == <<>>
NoAction == [name |-> "None", fcurves |-> <<>>]

-----------------------------------------------------------------------------
(* Exact rational arithmetic for the scripts' float expressions.            *)

Abs(x) == IF x < 0 THEN -x ELSE x

RECURSIVE GCD(_, _)
GCD(a, b) == IF b = 0 THEN a ELSE GCD(b, a % b)

\* n/d in lowest terms, d > 0
Norm(n, d) ==
    LET g == IF n = 0 THEN d ELSE GCD(Abs(n), d)
    IN  [n |-> n \div g, d |-> d \div g]

Rat(n, d) == Norm(n, d)
FromInt(k) == [n |-> k, d |-> 1]
RAdd(a, b) == Norm(a.n * b.d + b.n * a.d, a.d * b.d)
RSub(a, b) == Norm(a.n * b.d - b.n * a.d, a.d * b.d)
RMul(a, b) == Norm(a.n * b.n, a.d * b.d)
\* a / b, b # 0
RDiv(a, b) ==
    IF b.n > 0 THEN Norm(a.n * b.d, a.d * b.n)
    ELSE Norm(-(a.n * b.d), a.d * (-b.n))
RLt(a, b) == a.n * b.d < b.n * a.d
RLe(a, b) == a.n * b.d <= b.n * a.d
RMax(a, b) == IF RLe(a, b) THEN b ELSE a
\* Python's int(x): truncation toward zero
TruncInt(a) == IF a.n >= 0 THEN a.n \div a.d ELSE -((-a.n) \div a.d)


-----------------------------------------------------------------------------
(* Actions, F-curves and keyframes.  A keyframe carries the three times the *)
(* retime block rewrites: co.x, handle_left.x and handle_right.x.  An       *)
(* action is [name, fcurves], fcurves a sequence of sequences of keyframes. *)

MaxKeys == 3      \* keyframes per F-curve of an input action
MaxApply == 2     \* runs of the retime block on one action

KeyTimes == { FromInt(0), Rat(1, 2), FromInt(5), FromInt(10), FromInt(40), FromInt(70) }
HandleOffsets == { FromInt(0), FromInt(1) }
TargetEnds == { 0, 2, 30, 66 }

Key(t, h) == [co |-> t, hl |-> RSub(t, h), hr |-> RAdd(t, h)]

\* F-curves of n keyframes, times non-decreasing, handles h either side
CurvesOf(n, h) ==
    { [k \in 1..n |-> Key(ts[k], h)] :
        ts \in { f \in [1..n -> KeyTimes] :
                   \A k \in 1..(n - 1) : RLe(f[k], f[k + 1]) } }

Curves == UNION { CurvesOf(n, h) : n \in 1..MaxKeys, h \in HandleOffsets }

\* Input actions: one F-curve, or one F-curve and a second single-key channel
Actions ==
    { [name |-> "Action", fcurves |-> <<c>>] : c \in Curves }
    \cup { [name |-> "Action", fcurves |-> <<c, d>>] :
             c \in Curves, d \in CurvesOf(1, FromInt(0)) }

\* The times of all keyframes of the action
AllKeyCo(a) ==
    UNION { { a.fcurves[c][k].co : k \in DOMAIN a.fcurves[c] } : c \in DOMAIN a.fcurves }

\* act.frame_range: first and last keyframe time over the action's F-curves
frame_range(a) ==
    LET S == AllKeyCo(a)
    IN  [first |-> CHOOSE x \in S : \A y \in S : RLe(x, y),
         last  |-> CHOOSE x \in S : \A y \in S : RLe(y, x)]

\* orig = (fend - fstart) if fend > fstart else 1.0
SourceLength_clamp(fs, fe) == RMax(RSub(fe, fs), FromInt(1))
SourceLength_inclusive(fs, fe) ==
    IF RLt(fs, fe) THEN RAdd(RSub(fe, fs), FromInt(1)) ELSE FromInt(1)
SourceLength(fs, fe) == IF RLt(fs, fe) THEN RSub(fe, fs) ELSE FromInt(1)

\* scale = (scene.frame_end - scene.frame_start + 1) / orig
RetimeScale_exclusive(sstart, send, o) == RDiv(FromInt(send - sstart), o)
RetimeScale(sstart, send, o) == RDiv(FromInt(send - sstart + 1), o)

\* x = (x - fstart) * scale + scene.frame_start
RemapTime_mirrored(x, fs, sc, sstart) == RAdd(RMul(RSub(fs, x), sc), FromInt(sstart))
RemapTime(x, fs, sc, sstart) == RAdd(RMul(RSub(x, fs), sc), FromInt(sstart))

\* The loops over act.fcurves and fcurve.keyframe_points, for a given source range
RetimeWith(a, fs, fe, sstart, send) ==
    LET sc == RetimeScale(sstart, send, SourceLength(fs, fe))
    IN  [a EXCEPT !.fcurves =
            [c \in DOMAIN a.fcurves |->
                [k \in DOMAIN a.fcurves[c] |->
                    [co |-> RemapTime(a.fcurves[c][k].co, fs, sc, sstart),
                     hl |-> RemapTime(a.fcurves[c][k].hl, fs, sc, sstart),
                     hr |-> RemapTime(a.fcurves[c][k].hr, fs, sc, sstart)]]]]

\* The retime block: the source range is read from the action itself
RetimeBlock(a, sstart, send) ==
    RetimeWith(a, frame_range(a).first, frame_range(a).last, sstart, send)

\* The block's effect on the script's globals and on the action
DoRetime ==
    /\ fstart' = frame_range(act).first
    /\ fend' = frame_range(act).last
    /\ orig' = SourceLength(frame_range(act).first, frame_range(act).last)
    /\ scale' = RetimeScale(frame_start, frame_end,
                            SourceLength(frame_range(act).first, frame_range(act).last))
    /\ act' = RetimeBlock(act, frame_start, frame_end)
    /\ once' = IF applied = 0 THEN RetimeBlock(act, frame_start, frame_end) ELSE once
    /\ applied' = applied + 1

-----------------------------------------------------------------------------
(* The retime block on its own: an action and a target range are drawn, and *)
(* the block is run on the action up to MaxApply times.                     *)

Zero == FromInt(0)

InitRetime ==
    /\ script = "retime"
    /\ pc = "retime"
    /\ error = "none"
    /\ ids = <<>>
    /\ fps = 30
    /\ seconds = FromInt(2)
    /\ static_seconds = FromInt(10)
    /\ static_ids = {}
    /\ idx = 0
    /\ present = {}
    /\ absent = {}
    /\ fpath = None
    /\ scenes = <<>>
    /\ aspect = 0
    /\ rig = TRUE
    /\ act \in Actions
    /\ pristine = act
    /\ once = NoAction
    /\ applied = 0
    /\ frame_start = 1
    /\ frame_end \in TargetEnds
    /\ fstart = Zero
    /\ fend = Zero
    /\ orig = Zero
    /\ scale = Zero
    /\ video = TRUE
    /\ render_fps = fps
    /\ log = <<>>
    /\ jobs = <<>>

RetimeAgain ==
    /\ script = "retime"
    /\ applied < MaxApply
    /\ DoRetime
    /\ UNCHANGED <<cfg, pc, error, idx, present, absent, fpath, scenes,
                   aspect, rig, frame_start, frame_end, video, render_fps,
                   log, jobs, pristine>>

NextRetime == RetimeAgain

SpecRetime == InitRetime /\ [][NextRetime]_vars

-----------------------------------------------------------------------------
(* What the scripts share: the catalog, the configuration, the resolver and *)
(* the three aspects.                                                       *)

\* The catalog ids the model draws from: a rep exercise, a static floor
\* hold and a static standing hold.
IdPool == { "squats", "plank", "wall-sit" }

AllExts == { ".fbx", ".glb", ".gltf", ".blend" }

\* --fps, --seconds, --static_seconds
Configs ==
    { [fps |-> 30, seconds |-> FromInt(2),  static_seconds |-> FromInt(10)],
      [fps |-> 30, seconds |-> Rat(11, 5),  static_seconds |-> FromInt(10)],
      [fps |-> 24, seconds |-> Rat(3, 10),  static_seconds |-> FromInt(1)],
      [fps |-> 1,  seconds |-> Rat(1, 2),   static_seconds |-> FromInt(1)] }

\* --ids: the non-empty sequences of distinct ids
Catalogs ==
    UNION { { q \in [1..n -> IdPool] : \A a, b \in 1..n : a # b => q[a] # q[b] } :
              n \in 1..Cardinality(IdPool) }

\* Actions an imported rig may carry
SampleActions ==
    { [name |-> "Action", fcurves |-> <<c>>] :
        c \in { << Key(FromInt(10), FromInt(1)), Key(FromInt(40), FromInt(1)),
                   Key(FromInt(70), FromInt(1)) >>,
                << Key(FromInt(5), FromInt(0)) >>,
                << Key(FromInt(0), FromInt(0)), Key(Rat(1, 2), FromInt(0)) >> } }

\* The first extension of exts, in order, for which the file exists; "" if none
NoExt == ""
FirstExisting_last(exts, there) ==
    IF \E k \in DOMAIN exts : exts[k] \in there
    THEN exts[CHOOSE k \in DOMAIN exts :
                 /\ exts[k] \in there
                 /\ \A j \in DOMAIN exts : exts[j] \in there => j <= k]
    ELSE NoExt
FirstExisting(exts, there) ==
    IF \E k \in DOMAIN exts : exts[k] \in there
    THEN exts[CHOOSE k \in DOMAIN exts :
                 /\ exts[k] \in there
                 /\ \A j \in DOMAIN exts : exts[j] \in there => k <= j]
    ELSE NoExt

\* The candidate path of the first existing extension, as <<id, ext>>; else None
ResolveIn(exts, id, there) ==
    IF FirstExisting(exts, there) = NoExt THEN None
    ELSE << id, FirstExisting(exts, there) >>

\* for aspect in ("square","portrait","landscape"), with its resolution
ASPECTS ==
    << [name |-> "square",    x |-> 1080, y |-> 1080, wh |-> "1080x1080"],
       [name |-> "portrait",  x |-> 1080, y |-> 1920, wh |-> "1080x1920"],
       [name |-> "landscape", x |-> 1920, y |-> 1080, wh |-> "1920x1080"] >>

\* int(...)
FrameCount(secs, rate) == TruncInt(RMul(secs, FromInt(rate)))
Max2(n) == IF n > 2 THEN n ELSE 2

\* scene.render.fps of a scene as read_factory_settings leaves it
FactoryFps == 24

\* A render call: bpy.ops.render.render(animation=True), with the scene state
\* it runs under
Job(id, k, path) ==
    [id |-> id, aspect |-> ASPECTS[k].name, x |-> ASPECTS[k].x, y |-> ASPECTS[k].y,
     path |-> path, frame_start |-> frame_start, frame_end |-> frame_end,
     video |-> video, fps |-> render_fps]

InitScript(s) ==
    /\ script = s
    /\ pc = "start"
    /\ error = "none"
    /\ \E c \in Configs :
         /\ fps = c.fps
         /\ seconds = c.seconds
         /\ static_seconds = c.static_seconds
    /\ idx = 0
    /\ present = {}
    /\ absent = {}
    /\ fpath = None
    /\ scenes = <<>>
    /\ aspect = 0
    /\ rig = FALSE
    /\ act = NoAction
    /\ pristine = NoAction
    /\ once = NoAction
    /\ applied = 0
    /\ frame_start = 1
    /\ frame_end = 250
    /\ fstart = Zero
    /\ fend = Zero
    /\ orig = Zero
    /\ scale = Zero
    /\ video = FALSE
    /\ render_fps = (IF s = "addon" THEN fps ELSE FactoryFps)
    /\ log = <<>>
    /\ jobs = <<>>

-----------------------------------------------------------------------------
(* blender_batch_render.py.                                                 *)
(*                                                                          *)
(* The statements of the script are modelled in order.  The first statement *)
(* of the aspect loop (line 207) is not a well-formed conditional           *)
(* expression and names FLOOD_IDS, which the script binds nowhere (the set  *)
(* at line 133 is FLOOR_IDS): Python rejects the file because of it, and    *)
(* the statement could not be evaluated if it were reached.  The model      *)
(* lets control run up to that statement and raise there, so that what the  *)
(* statements before it do is checked too; lines 209-214 (position_camera,  *)
(* filepath, render) are never executed.                                    *)

\* is_static = ex_id in {...}
BATCH_STATIC_IDS ==
    { "plank", "side-plank", "wall-sit", "downward-dog", "child-pose",
      "single-leg-stand", "tree-pose", "warrior-3", "forward-fold", "finger-roll" }

\* for ext in (".fbx",".glb",".gltf",".blend")
BATCH_EXTS == << ".fbx", ".glb", ".gltf", ".blend" >>

\* the branches of import_asset
IMPORT_ASSET_EXTS == { ".fbx", ".glb", ".gltf", ".blend" }

ex_id == ids[idx]

\* int(seconds * args.fps)
BatchFrameEnd(id) ==
    FrameCount(IF id \in static_ids THEN static_seconds ELSE seconds, fps)

\* The two keyframes of the idle sway
IdleAction(id, sstart, send) ==
    [name |-> id \o "_Idle",
     fcurves |-> << << Key(FromInt(sstart), FromInt(0)),
                       Key(FromInt(send), FromInt(0)) >> >>]

InitBatch ==
    /\ InitScript("batch")
    /\ ids \in Catalogs
    /\ static_ids = BATCH_STATIC_IDS

\* lines 28-103: scene setup and render settings, before the loop (line 38
\* assigns scene.frame_rate; scene.render.fps is not assigned)
BatchSetup ==
    /\ script = "batch" /\ pc = "start"
    /\ video' = TRUE
    /\ pc' = "loop"
    /\ UNCHANGED <<render_fps, cfg, error, idx, present, absent, fpath,
                   scenes, aspect, rig, act, frame_start, frame_end, log,
                   jobs, retime_vars>>

\* lines 136-154: the next id; read_factory_settings replaces the scene (the
\* render settings of lines 97-103 are not applied to the new one)
BatchNextId ==
    /\ script = "batch" /\ pc = "loop"
    /\ idx < Len(ids)
    /\ idx' = idx + 1
    /\ video' = FALSE
    /\ render_fps' = FactoryFps
    /\ frame_start' = 1
    /\ frame_end' = 250
    /\ pc' = "resolve"
    /\ UNCHANGED <<cfg, error, present, absent, fpath, scenes, aspect, rig,
                   act, log, jobs, retime_vars>>

\* line 215: the loop is over
BatchDone ==
    /\ script = "batch" /\ pc = "loop"
    /\ idx = Len(ids)
    /\ pc' = "done"
    /\ UNCHANGED <<cfg, error, idx, present, absent, fpath, scenes, aspect,
                   rig, act, frame_start, frame_end, video, render_fps, log,
                   jobs, retime_vars>>

\* lines 157-165: resolve the asset; warn and continue when there is none
BatchResolve ==
    /\ script = "batch" /\ pc = "resolve"
    /\ \E there \in SUBSET AllExts :
         /\ present' = there
         /\ absent' = IF there = {} THEN absent \cup {ex_id} ELSE absent
         /\ fpath' = ResolveIn(BATCH_EXTS, ex_id, there)
         /\ IF ResolveIn(BATCH_EXTS, ex_id, there) = None
            THEN /\ log' = Append(log, <<"warn", ex_id>>)
                 /\ pc' = "loop"
            ELSE /\ log' = log
                 /\ pc' = "import"
    /\ UNCHANGED <<cfg, error, idx, scenes, aspect, rig, act, frame_start,
                   frame_end, video, render_fps, jobs, retime_vars>>

\* lines 166-168 (import_asset) and 179 (find_action): the importer raises, or
\* yields no armature, or an armature with or without an action
BatchImport ==
    /\ script = "batch" /\ pc = "import"
    /\ log' = Append(log, <<"import", ex_id>>)
    /\ \/ /\ fpath[2] \notin IMPORT_ASSET_EXTS
          /\ pc' = "failed" /\ error' = "RuntimeError: unsupported"
          /\ UNCHANGED <<rig, act, pristine>>
       \/ /\ fpath[2] \in IMPORT_ASSET_EXTS
          /\ pc' = "failed" /\ error' = "RuntimeError: import"
          /\ UNCHANGED <<rig, act, pristine>>
       \/ /\ fpath[2] \in IMPORT_ASSET_EXTS
          /\ pc' = "duration" /\ error' = error
          /\ \/ rig' = FALSE /\ act' = NoAction
             \/ rig' = TRUE /\ act' \in SampleActions \cup {NoAction}
          /\ pristine' = act'
    /\ once' = NoAction
    /\ applied' = 0
    /\ UNCHANGED <<cfg, idx, present, absent, fpath, scenes, aspect,
                   frame_start, frame_end, fstart, fend, orig, scale, video,
                   render_fps, jobs>>

\* lines 171-176: the frame range of the id
BatchDuration ==
    /\ script = "batch" /\ pc = "duration"
    /\ frame_start' = 1
    /\ frame_end' = BatchFrameEnd(ex_id)
    /\ pc' = "animate"
    /\ UNCHANGED <<cfg, error, idx, present, absent, fpath, scenes, aspect,
                   rig, act, video, render_fps, log, jobs, retime_vars>>

\* lines 180-189: an action exists, retime it
BatchRetime ==
    /\ script = "batch" /\ pc = "animate"
    /\ act # NoAction
    /\ DoRetime
    /\ log' = Append(log, <<"retime", ex_id>>)
    /\ pc' = "aspects"
    /\ UNCHANGED <<cfg, error, idx, present, absent, fpath, scenes, aspect,
                   rig, frame_start, frame_end, video, render_fps, jobs,
                   pristine>>

\* The guard of the idle sway: "if rig" in the else branch of "if act"
IdleGuard(id) == rig

\* lines 191-203: no action; with a rig, key the idle sway
BatchIdle ==
    /\ script = "batch" /\ pc = "animate"
    /\ act = NoAction
    /\ IF IdleGuard(ex_id)
       THEN /\ act' = IdleAction(ex_id, frame_start, frame_end)
            /\ log' = Append(log, <<"idle", ex_id>>)
       ELSE UNCHANGED <<act, log>>
    /\ pc' = "aspects"
    /\ UNCHANGED <<cfg, error, idx, present, absent, fpath, scenes, aspect,
                   rig, frame_start, frame_end, video, render_fps, jobs,
                   retime_vars>>

\* lines 206-207: the aspect loop's first statement raises
BatchAspects ==
    /\ script = "batch" /\ pc = "aspects"
    /\ aspect' = 1
    /\ pc' = "failed"
    /\ error' = "NameError: FLOOD_IDS"
    /\ UNCHANGED <<cfg, idx, present, absent, fpath, scenes, rig, act,
                   frame_start, frame_end, video, render_fps, log, jobs,
                   retime_vars>>

-----------------------------------------------------------------------------
(* build_catalog_blend.py, then render_catalog_scenes.py on the .blend it   *)
(* saved.  Both are given the same --fps, --seconds, --static_seconds and   *)
(* --static_ids.                                                            *)

\* find_asset: for ext in (".fbx",".glb",".gltf")
CATALOG_EXTS == << ".fbx", ".glb", ".gltf" >>

\* the branches of import_asset_into_scene
CATALOG_IMPORT_EXTS == { ".fbx", ".glb", ".gltf" }

\* --static_ids: none, or the list of the usage example
StaticIdChoices == { {}, BATCH_STATIC_IDS }

\* max(2, int(fps * seconds))
ClampedFrameEnd(id) ==
    Max2(FrameCount(IF id \in static_ids THEN static_seconds ELSE seconds, fps))

\* os.path.join(out_dir, f"{exercise_id}_v1_") + f"{wh}.mp4"
CatalogPath(id, k) == "out/" \o id \o "/" \o id \o "_v1_" \o ASPECTS[k].wh \o ".mp4"

InitBuild ==
    /\ InitScript("build")
    /\ ids \in Catalogs
    /\ static_ids \in StaticIdChoices

\* build lines 60-64
BuildStart ==
    /\ script = "build" /\ pc = "start"
    /\ pc' = "loop"
    /\ UNCHANGED <<cfg, error, idx, present, absent, fpath, scenes, aspect,
                   rig, act, frame_start, frame_end, video, render_fps, log,
                   jobs, retime_vars>>

\* build lines 65-73: the next id gets a copy of the template scene, named
\* after it, and its asset is looked up; a missing asset is only warned about
BuildResolve ==
    /\ script = "build" /\ pc = "loop"
    /\ idx < Len(ids)
    /\ idx' = idx + 1
    /\ scenes' = Append(scenes, [name |-> ids[idx + 1], imported |-> FALSE])
    /\ \E there \in SUBSET AllExts :
         /\ present' = there
         /\ absent' = IF there = {} THEN absent \cup {ids[idx + 1]} ELSE absent
         /\ fpath' = ResolveIn(CATALOG_EXTS, ids[idx + 1], there)
         /\ IF ResolveIn(CATALOG_EXTS, ids[idx + 1], there) = None
            THEN /\ log' = Append(log, <<"warn", ids[idx + 1]>>)
                 /\ pc' = "timeline"
            ELSE /\ log' = log
                 /\ pc' = "import"
    /\ UNCHANGED <<cfg, error, aspect, rig, act, frame_start, frame_end,
                   video, render_fps, jobs, retime_vars>>

\* build line 75: import_asset_into_scene
BuildImport ==
    /\ script = "build" /\ pc = "import"
    /\ log' = Append(log, <<"import", ex_id>>)
    /\ \/ /\ fpath[2] \notin CATALOG_IMPORT_EXTS
          /\ pc' = "failed" /\ error' = "RuntimeError: unsupported"
          /\ scenes' = scenes
       \/ /\ fpath[2] \in CATALOG_IMPORT_EXTS
          /\ pc' = "failed" /\ error' = "RuntimeError: import"
          /\ scenes' = scenes
       \/ /\ fpath[2] \in CATALOG_IMPORT_EXTS
          /\ pc' = "timeline" /\ error' = error
          /\ scenes' = [scenes EXCEPT ![idx].imported = TRUE]
    /\ UNCHANGED <<cfg, idx, present, absent, fpath, aspect, rig, act,
                   frame_start, frame_end, video, render_fps, jobs,
                   retime_vars>>

\* build lines 77-79: set_timeline; the scene goes on the list of created scenes
BuildTimeline ==
    /\ script = "build" /\ pc = "timeline"
    /\ frame_start' = 1
    /\ frame_end' = ClampedFrameEnd(ex_id)
    /\ render_fps' = fps
    /\ pc' = "loop"
    /\ UNCHANGED <<cfg, error, idx, present, absent, fpath, scenes, aspect,
                   rig, act, video, log, jobs, retime_vars>>

\* build lines 81-90: every created scene is kept and the .blend is saved;
\* render_catalog_scenes.py (lines 41-47 of it) then starts on that file
BuildSaveRenderStart ==
    /\ script = "build" /\ pc = "loop"
    /\ idx = Len(ids)
    /\ script' = "render"
    /\ idx' = 0
    /\ pc' = "loop"
    /\ UNCHANGED <<ids, fps, seconds, static_seconds, static_ids, error,
                   present, absent, fpath, scenes, aspect, rig, act,
                   frame_start, frame_end, video, render_fps, log, jobs,
                   retime_vars>>

scene_id == scenes[idx].name

\* render lines 49-62: the next scene: fps, frame range, video settings
RenderScene ==
    /\ script = "render" /\ pc = "loop"
    /\ idx < Len(scenes)
    /\ idx' = idx + 1
    /\ frame_start' = 1
    /\ render_fps' = fps
    /\ frame_end' = ClampedFrameEnd(scenes[idx + 1].name)
    /\ video' = TRUE
    /\ aspect' = 1
    /\ pc' = "aspects"
    /\ UNCHANGED <<cfg, error, present, absent, fpath, scenes, rig, act, log,
                   jobs, retime_vars>>

\* render lines 64-68: one aspect: resolution, filepath, render (which may fail)
RenderAspect ==
    /\ script = "render" /\ pc = "aspects"
    /\ jobs' = Append(jobs, Job(scene_id, aspect, CatalogPath(scene_id, aspect)))
    /\ \/ /\ pc' = "failed" /\ error' = "RuntimeError: render"
          /\ aspect' = aspect
       \/ /\ error' = error
          /\ IF aspect < Len(ASPECTS)
             THEN aspect' = aspect + 1 /\ pc' = "aspects"
             ELSE aspect' = 0 /\ pc' = "loop"
    /\ log' = log
    /\ UNCHANGED <<cfg, idx, present, absent, fpath, scenes, rig, act,
                   frame_start, frame_end, video, render_fps, retime_vars>>

\* render line 70
RenderDone ==
    /\ script = "render" /\ pc = "loop"
    /\ idx = Len(scenes)
    /\ pc' = "done"
    /\ UNCHANGED <<cfg, error, idx, present, absent, fpath, scenes, aspect,
                   rig, act, frame_start, frame_end, video, render_fps, log,
                   jobs, retime_vars>>

-----------------------------------------------------------------------------
(* repcue_render_addon.py: REPCUE_OT_render.execute on the current scene.   *)
(* ids holds props.exercise_id, static_ids holds it when props.is_static.   *)

\* base + f"{wh}.mp4", base = os.path.join(output_dir, exercise_id + "_v1_")
AddonPath(id, k) == "out/" \o id \o "_v1_" \o ASPECTS[k].wh \o ".mp4"

\* fps = scn.render.fps or 30
AddonFps == IF fps = 0 THEN 30 ELSE fps

\* max(2, int(seconds * fps))
AddonFrameEnd(id) ==
    Max2(FrameCount(IF id \in static_ids THEN static_seconds ELSE seconds, AddonFps))

InitAddon ==
    /\ InitScript("addon")
    /\ ids \in { q \in Catalogs : Len(q) = 1 }
    /\ static_ids \in { {}, {ids[1]} }

\* addon lines 73-86: duration, video settings, output base
AddonExecute ==
    /\ script = "addon" /\ pc = "start"
    /\ idx' = 1
    /\ frame_start' = 1
    /\ frame_end' = AddonFrameEnd(ids[1])
    /\ video' = TRUE
    /\ aspect' = 1
    /\ pc' = "aspects"
    /\ UNCHANGED <<cfg, error, present, absent, fpath, scenes, rig, act, log,
                   jobs, render_fps, retime_vars>>

\* addon lines 89-92: one aspect: resolution, filepath, render (which may fail)
AddonAspect ==
    /\ script = "addon" /\ pc = "aspects"
    /\ jobs' = Append(jobs, Job(ex_id, aspect, AddonPath(ex_id, aspect)))
    /\ \/ /\ pc' = "failed" /\ error' = "RuntimeError: render"
          /\ aspect' = aspect
       \/ /\ error' = error
          /\ IF aspect < Len(ASPECTS)
             THEN aspect' = aspect + 1 /\ pc' = "aspects"
             ELSE aspect' = 0 /\ pc' = "done"
    /\ UNCHANGED <<cfg, idx, present, absent, fpath, scenes, rig, act,
                   frame_start, frame_end, video, render_fps, log,
                   retime_vars>>

-----------------------------------------------------------------------------
(* One run of one of the scripts.                                           *)

Init == InitBatch \/ InitBuild \/ InitAddon

Next ==
    \/ BatchSetup
    \/ BatchNextId
    \/ BatchDone
    \/ BatchResolve
    \/ BatchImport
    \/ BatchDuration
    \/ BatchRetime
    \/ BatchIdle
    \/ BatchAspects
    \/ BuildStart
    \/ BuildResolve
    \/ BuildImport
    \/ BuildTimeline
    \/ BuildSaveRenderStart
    \/ RenderScene
    \/ RenderAspect
    \/ RenderDone
    \/ AddonExecute
    \/ AddonAspect

Spec == Init /\ [][Next]_vars

-----------------------------------------------------------------------------
(* Properties of the retime block (checked under SpecRetime).               *)

TargetLength == FromInt(frame_end - frame_start + 1)
NonDegenerate(a) == RLt(frame_range(a).first, frame_range(a).last)
CoTimes(a, c) == [k \in DOMAIN a.fcurves[c] |-> a.fcurves[c][k].co]

\* C3 (as amended): after one run of the retime block on an action whose
\* source range [fstart, fend] has fend > fstart, every keyframe that was at
\* fstart is at frame_start and every keyframe that was at fend is at
\* frame_start + targetLength = frame_end + 1.
C3_EndpointsMap ==
    (applied = 1 /\ NonDegenerate(pristine)) =>
        \A c \in DOMAIN pristine.fcurves : \A k \in DOMAIN pristine.fcurves[c] :
            /\ pristine.fcurves[c][k].co = frame_range(pristine).first
                 => act.fcurves[c][k].co = FromInt(frame_start)
            /\ pristine.fcurves[c][k].co = frame_range(pristine).last
                 => act.fcurves[c][k].co = FromInt(frame_end + 1)

\* C3 witness: source keyframes 10, 40, 70 retimed once onto 1..66 are at 1, 34, 67.
C3_Witness ==
    /\ applied = 1
    /\ frame_end = 66
    /\ CoTimes(pristine, 1) = <<FromInt(10), FromInt(40), FromInt(70)>>
    /\ CoTimes(act, 1) = <<FromInt(1), FromInt(34), FromInt(67)>>

\* C3 as stated: a keyframe at firstFrame maps to startFrame and a keyframe at
\* lastFrame maps exactly to endFrame.
C3_Original ==
    (applied = 1 /\ NonDegenerate(pristine)) =>
        \A c \in DOMAIN pristine.fcurves : \A k \in DOMAIN pristine.fcurves[c] :
            /\ pristine.fcurves[c][k].co = frame_range(pristine).first
                 => act.fcurves[c][k].co = FromInt(frame_start)
            /\ pristine.fcurves[c][k].co = frame_range(pristine).last
                 => act.fcurves[c][k].co = FromInt(frame_end)

\* C7 (as amended): run a second time on an already retimed action, the
\* retime block (which reads the source range from the action) leaves a
\* non-degenerate action as the first run left it; the result differs from
\* the first run's only when the original source range is used again, the
\* source length differing from the target length and the target length
\* not being 0.
C7_SecondRunFixedPoint ==
    /\ (applied >= 2 /\ NonDegenerate(pristine)) => act = once
    /\ (applied >= 1 /\ NonDegenerate(pristine)
          /\ RSub(frame_range(pristine).last, frame_range(pristine).first) # TargetLength
          /\ TargetLength # Zero)
         => RetimeWith(once, frame_range(pristine).first, frame_range(pristine).last,
                       frame_start, frame_end) # once

\* C7 witness: a non-degenerate action, source length unlike the target
\* length, retimed twice: the second run changed nothing the first had changed.
C7_Witness ==
    /\ applied = 2
    /\ NonDegenerate(pristine)
    /\ RSub(frame_range(pristine).last, frame_range(pristine).first) # TargetLength
    /\ once # pristine
    /\ act = once

\* C7 as stated: the second run on the retimed curve gives a result different
\* from the first run's, for every non-degenerate curve whose source length
\* differs from the target length (the target a TargetRange: endFrame >= 2).
C7_Original ==
    (applied = 2 /\ NonDegenerate(pristine) /\ frame_end >= 2
       /\ RSub(frame_range(pristine).last, frame_range(pristine).first) # TargetLength)
      => act # once

\* C8 (as amended): the retime block raises nothing, and the scale it uses is
\* targetLength / (lastFrame - firstFrame) when lastFrame > firstFrame (also
\* when that difference is below 1) and targetLength / 1 otherwise.
C8_ScaleUsed ==
    applied = 1 =>
        /\ error = "none"
        /\ IF RLt(frame_range(pristine).first, frame_range(pristine).last)
           THEN RMul(scale, RSub(frame_range(pristine).last,
                                 frame_range(pristine).first)) = TargetLength
           ELSE scale = TargetLength

\* C8 witness: firstFrame = lastFrame = 5, target length 30: scale 30.
C8_Witness ==
    /\ applied = 1
    /\ frame_range(pristine).first = FromInt(5)
    /\ frame_range(pristine).last = FromInt(5)
    /\ TargetLength = FromInt(30)
    /\ scale = FromInt(30)
    /\ error = "none"

\* C8 as stated: for every source range the scale used is
\* targetLength / max(lastFrame - firstFrame, 1).
C8_Original ==
    applied = 1 =>
        scale = RDiv(TargetLength,
                     RMax(RSub(frame_range(pristine).last,
                               frame_range(pristine).first), FromInt(1)))

\* The positions <<curve, keyframe, field>> of the times of an action
TimeSlots(a) ==
    UNION { { <<c, k, f>> : k \in DOMAIN a.fcurves[c], f \in {"co", "hl", "hr"} } :
              c \in DOMAIN a.fcurves }
TimeAt(a, s) == a.fcurves[s[1]][s[2]][s[3]]

\* From src to dst the keyframes at the first and at the last frame of src
\* have moved to a distance of exactly the target length
SpanIsTarget(src, dst) ==
    \A c1, c2 \in DOMAIN src.fcurves :
        \A k1 \in DOMAIN src.fcurves[c1] : \A k2 \in DOMAIN src.fcurves[c2] :
            (/\ src.fcurves[c1][k1].co = frame_range(src).first
             /\ src.fcurves[c2][k2].co = frame_range(src).last)
              => RSub(dst.fcurves[c2][k2].co, dst.fcurves[c1][k1].co) = TargetLength

\* From src to dst no two times (keyframe or handle) have changed their order
OrderKept(src, dst) ==
    \A s1, s2 \in TimeSlots(src) :
        RLe(TimeAt(src, s1), TimeAt(src, s2)) => RLe(TimeAt(dst, s1), TimeAt(dst, s2))

\* C12: after a run of the retime block on a non-degenerate action, the
\* images of the source range's first and last frame are exactly
\* targetLength = frame_end - frame_start + 1 apart, and any two times of the
\* action (keyframe times and both handle times) are in the order they were in
\* before the run; for the first run and for a run on the result of it.
C12_SpanAndOrder ==
    /\ (applied >= 1 /\ NonDegenerate(pristine)) =>
          /\ SpanIsTarget(pristine, once)
          /\ OrderKept(pristine, once)
    /\ (applied >= 2 /\ NonDegenerate(once)) =>
          /\ SpanIsTarget(once, act)
          /\ OrderKept(once, act)

\* C12 witness: keyframes 10, 40, 70 with handles one frame either side,
\* retimed onto 1..30: the keyframes are at 1, 16, 31 (31 - 1 = 30) and the
\* handles of the first at 1/2 and 3/2.
C12_Witness ==
    /\ applied = 1
    /\ TargetLength = FromInt(30)
    /\ CoTimes(pristine, 1) = <<FromInt(10), FromInt(40), FromInt(70)>>
    /\ pristine.fcurves[1][1].hl = FromInt(9)
    /\ CoTimes(act, 1) = <<FromInt(1), FromInt(16), FromInt(31)>>
    /\ act.fcurves[1][1].hl = Rat(1, 2)
    /\ act.fcurves[1][1].hr = Rat(3, 2)

-----------------------------------------------------------------------------
(* Properties of the runs (checked under Spec).                             *)

Ended == pc \in { "done", "failed" }
InLog(op, id) == \E k \in DOMAIN log : log[k] = <<op, id>>
JobsOf(id) == SelectSeq(jobs, LAMBDA j : j.id = id)
\* BatchResult.rendered and BatchResult.skipped, as far as the run shows them
Rendered(id) == Len(JobsOf(id)) = 3
Skipped(id) == InLog("warn", id)
\* floor(secs * rate) for secs * rate >= 0, and the frame end the claims give
Floor(r) == CHOOSE n \in 0..(r.n + 1) : n * r.d <= r.n /\ r.n < (n + 1) * r.d
ExpectedEnd(id) ==
    LET n == Floor(RMul(IF id \in static_ids THEN static_seconds ELSE seconds,
                        FromInt(fps)))
    IN  IF n >= 2 THEN n ELSE 2

\* C1 as stated: in the batch run (no import failing), an id with no asset
\* file gets no import, no retime and no render job, and every id after it in
\* the catalog is still processed: skipped if it has no asset either,
\* rendered in its three aspects if it has one.
C1_Original ==
    (script = "batch" /\ Ended /\ error # "RuntimeError: import") =>
        \A k \in DOMAIN ids :
            ids[k] \in absent =>
                /\ ~InLog("import", ids[k])
                /\ ~InLog("retime", ids[k])
                /\ JobsOf(ids[k]) = <<>>
                /\ \A j \in (k + 1)..Len(ids) : Skipped(ids[j]) \/ Rendered(ids[j])

\* C2 as stated: when the import of an id raises in the batch run, or a
\* render call of a scene raises in the catalog render, the run goes on and
\* every later id is still reached.
C2_Original ==
    /\ (script = "batch" /\ Ended /\ error = "RuntimeError: import") =>
          \A j \in (idx + 1)..Len(ids) : InLog("warn", ids[j]) \/ InLog("import", ids[j])
    /\ (script = "render" /\ Ended /\ error = "RuntimeError: render") =>
          \A j \in (idx + 1)..Len(scenes) : JobsOf(scenes[j].name) # <<>>

\* C4 as stated: every render job runs with frame_start = 1 and
\* frame_end = max(2, floor(seconds * fps)), seconds the static or the rep
\* duration of its id, and so does the frame range the batch script has set
\* when an id enters its aspect loop; frame_end >= 2 always.
C4_Original ==
    /\ \A k \in DOMAIN jobs :
          /\ jobs[k].frame_start = 1
          /\ jobs[k].frame_end = ExpectedEnd(jobs[k].id)
          /\ jobs[k].frame_end >= 2
    /\ (script = "batch" /\ pc = "aspects") =>
          /\ frame_start = 1
          /\ frame_end = ExpectedEnd(ex_id)
          /\ frame_end >= 2

\* The three jobs of an id: square, portrait, landscape, each with its
\* resolution and its path outputRoot/<id>/<id>_v1_<W>x<H>.mp4
ThreeJobs(id) ==
    /\ Len(JobsOf(id)) = 3
    /\ [k \in 1..3 |-> <<JobsOf(id)[k].x, JobsOf(id)[k].y>>]
         = << <<1080, 1080>>, <<1080, 1920>>, <<1920, 1080>> >>
    /\ [k \in 1..3 |-> JobsOf(id)[k].path]
         = << "out/" \o id \o "/" \o id \o "_v1_1080x1080.mp4",
              "out/" \o id \o "/" \o id \o "_v1_1080x1920.mp4",
              "out/" \o id \o "/" \o id \o "_v1_1920x1080.mp4" >>

\* C5 as stated: every id that enters the aspect loop (the expand step) gets
\* exactly its three render jobs, in the batch script and in the catalog
\* render; seen when the run has ended without a render call failing.
C5_Original ==
    /\ (script = "batch" /\ Ended /\ aspect = 1) => ThreeJobs(ex_id)
    /\ (script = "render" /\ pc = "done") =>
          \A k \in DOMAIN scenes : ThreeJobs(scenes[k].name)

\* C6 as stated: when the batch run ends every id of the catalog is either
\* rendered (its three render jobs done) or skipped (warned about), not both
\* and not neither.
C6_Original ==
    (script = "batch" /\ Ended) =>
        \A k \in DOMAIN ids : Rendered(ids[k]) # Skipped(ids[k])

\* C9 as stated: the idle sway is keyed for an id only when the import gave
\* no action and the id is a static hold; never for a rep id.
C9_Original ==
    (script = "batch" /\ pc = "aspects" /\ InLog("idle", ex_id)) =>
        /\ pristine = NoAction
        /\ ex_id \in BATCH_STATIC_IDS

\* What a resolver that tries the extensions of order, in order, has in fpath
\* for the current id, all of them extensions the importer takes
ResolvedBy(order, id, importer) ==
    IF \E k \in DOMAIN order : order[k] \in present
    THEN \E k \in DOMAIN order :
            /\ fpath = <<id, order[k]>>
            /\ order[k] \in present
            /\ order[k] \in importer
            /\ \A j \in 1..(k - 1) : order[j] \notin present
    ELSE fpath = None /\ error = "none"

\* C10 (as amended): the batch script resolves an id to the file of the first
\* of .fbx, .glb, .gltf, .blend that exists, and find_asset of the catalog
\* builder to the first of .fbx, .glb, .gltf that exists (a lone .blend is
\* not found); each yields None, raising nothing, when none of its
\* extensions exists, and never a file that does not exist or an extension
\* its own importer does not take.
C10_FirstExisting ==
    /\ (script = "batch" /\ idx > 0 /\ pc # "resolve") =>
          ResolvedBy(<< ".fbx", ".glb", ".gltf", ".blend" >>, ex_id,
                     { ".fbx", ".glb", ".gltf", ".blend" })
    /\ (script = "build" /\ idx > 0) =>
          ResolvedBy(<< ".fbx", ".glb", ".gltf" >>, ex_id,
                     { ".fbx", ".glb", ".gltf" })

\* C10 witness: .glb and .blend both exist, .fbx does not: the batch script
\* has resolved the id to its .glb.
C10_Witness ==
    /\ script = "batch" /\ pc = "import"
    /\ { ".glb", ".blend" } \subseteq present
    /\ ".fbx" \notin present
    /\ fpath = <<ex_id, ".glb">>

\* C10 as stated: every resolver returns the first existing of .fbx, .glb,
\* .gltf, .blend, and None only when none of the four exists.
C10_Original ==
    /\ (script = "batch" /\ idx > 0 /\ pc # "resolve") =>
          ResolvedBy(<< ".fbx", ".glb", ".gltf", ".blend" >>, ex_id,
                     { ".fbx", ".glb", ".gltf", ".blend" })
    /\ (script = "build" /\ idx > 0) =>
          ResolvedBy(<< ".fbx", ".glb", ".gltf", ".blend" >>, ex_id,
                     { ".fbx", ".glb", ".gltf", ".blend" })

\* The retime block ran exactly once for the current id, on the action as
\* imported, with the frame range the id's duration gives
RetimedOnce ==
    /\ applied = 1
    /\ frame_start = 1
    /\ frame_end = BatchFrameEnd(ex_id)
    /\ act = RetimeBlock(pristine, frame_start, frame_end)

\* The jobs of the id are its three aspects, all with the scene's frame range
ThreeJobsSameRange(id) ==
    /\ Len(JobsOf(id)) = 3
    /\ \A k \in DOMAIN JobsOf(id) :
          /\ JobsOf(id)[k].frame_start = frame_start
          /\ JobsOf(id)[k].frame_end = frame_end

\* C11 as stated: in the batch run, an id whose import gave an action has the
\* retime block applied exactly once, to the action as imported, after its
\* frame range is set and before its first render job; the block is not run
\* again between its three render jobs, which all render the same curve and
\* frame range.  Seen when the run has ended after the id entered its aspect
\* loop.
C11_Original ==
    (script = "batch" /\ Ended /\ aspect = 1 /\ pristine # NoAction) =>
        /\ RetimedOnce
        /\ ThreeJobsSameRange(ex_id)

\* The scenes of the catalog .blend that carry the name of the id
ScenesOf(id) == { j \in DOMAIN scenes : scenes[j].name = id }

\* C13 as stated: when the catalog pipeline (build, then render) is done, an
\* id for which find_asset found no file has no scene in the catalog and no
\* render job, and every other id has one scene and three render jobs.
C13_Original ==
    (script = "render" /\ pc = "done") =>
        \A k \in DOMAIN ids :
            IF InLog("warn", ids[k])
            THEN /\ ScenesOf(ids[k]) = {}
                 /\ JobsOf(ids[k]) = <<>>
            ELSE /\ Cardinality(ScenesOf(ids[k])) = 1
                 /\ Len(JobsOf(ids[k])) = 3

\* The exceptions that come out of the external import call
ImportErrors == { "RuntimeError: import", "RuntimeError: unsupported" }

\* C14 as stated: the batch run ends in failure only when an external call
\* (the import; a render call) raised, no step of the script between the
\* retime or the idle sway and a render call failing on its own; and when it
\* has reached "Done." every id whose asset resolved has had its three render
\* calls.
C14_Original ==
    script = "batch" =>
        /\ pc = "failed" => error \in ImportErrors \cup { "RuntimeError: render" }
        /\ pc = "done" =>
              \A k \in DOMAIN ids : ~Skipped(ids[k]) => Rendered(ids[k])

\* C15 as stated: every render job is issued while the active scene has the
\* video output settings (FFMPEG, MPEG4, H264) and the configured fps, and so
\* is the scene the batch script has when an id, after the per-id reset,
\* enters its aspect loop.
C15_Original ==
    /\ \A k \in DOMAIN jobs :
          /\ jobs[k].video
          /\ jobs[k].fps = fps
    /\ (script = "batch" /\ pc = "aspects") =>
          /\ video
          /\ render_fps = fps

=============================================================================
